---- MODULE Spec2Model ----
(***************************************************************************)
(* Forecasting & confidence calibration engine of the stock project.      *)
(*                                                                         *)
(* Floating point quantities are carried in fixed point:                   *)
(*   calibrator prices      in millionths (1.0 = PriceOne units)           *)
(*   risk                   in hundredths (0..100 stands for 0.0..1.0)     *)
(*   calibrator error       in basis points (100 = 1 %)                    *)
(*   calibrator confidences in hundredths of a point (4000 = 40.0)         *)
(*   forecaster prices      in hundredths                                  *)
(*   scorer arguments       in tenths of a percent                         *)
(*   engine scores          in twentieths of a point (1900 = 95.0)         *)
(* NaN is a value of its own that every operation propagates.              *)
(***************************************************************************)
EXTENDS Integers, Sequences, FiniteSets, TLC

VARIABLES
    corpus,      \* risk calibrator: the cleaned frame (rows in time order)
    response,    \* risk calibrator: what generate_prediction_response gave
    scorer,      \* confidence scorer: the arguments of a call and its result
    series,      \* the closing prices the data provider holds for the symbol
    prediction,  \* what predict_price answered to the request in progress
    advice,      \* what Advisor._make_forecast answered to the request in progress
    comparison,  \* what compare_models answered to the request in progress
    training,    \* what POST /train answered to the request in progress
    analysis,    \* what GET /api/predict answered to the request in progress
    frame,       \* risk calibrator: the frame load_and_validate_data gave
    cleaned,     \* risk calibrator: that frame after reconstruction and cleaning
    reply,       \* risk calibrator: what GET /risk-vs-prediction answered
    selector,    \* order selector: the search bounds, what each candidate fit
                 \* does on the series at hand, and the orders returned so far
    cache,       \* quotes: cache_manager.cache, per symbol
    workers,     \* quotes: where each worker thread of get_quotes stands
    clock        \* quotes: time.time()

riskVars == <<corpus, response, reply, frame, cleaned>>
forecastVars == <<series, prediction, advice, comparison, training, analysis>>
scoreVars == <<scorer>>
orderVars == <<selector>>
quoteVars == <<cache, workers, clock>>
vars == <<riskVars, scoreVars, forecastVars, orderVars, quoteVars>>

----------------------------------------------------------------------------
(* Generic helpers                                                         *)

\* float('nan'): every arithmetic result on it is NaN, every comparison false
NaN == -999999999

Abs(x) == IF x < 0 THEN -x ELSE x
Max2(a, b) == IF a >= b THEN a ELSE b
Min2(a, b) == IF a <= b THEN a ELSE b

\* the sum of s[lo..hi], by halves
RECURSIVE SumRange(_, _, _)
SumRange(s, lo, hi) ==
    IF lo > hi THEN 0
    ELSE IF lo = hi THEN s[lo]
    ELSE LET mid == (lo + hi) \div 2
         IN  SumRange(s, lo, mid) + SumRange(s, mid + 1, hi)
SumSeq(s) == SumRange(s, 1, Len(s))

\* the integer square root, by bisection on lo <= root < hi
RECURSIVE SqrtBetween(_, _, _)
SqrtBetween(n, lo, hi) ==
    IF hi - lo <= 1 THEN lo
    ELSE LET mid == (lo + hi) \div 2
         IN  IF mid * mid <= n THEN SqrtBetween(n, mid, hi) ELSE SqrtBetween(n, lo, mid)
ISqrt(n) == SqrtBetween(n, 0, 46341)

\* float arithmetic with NaN propagation
FAdd(a, b) == IF a = NaN \/ b = NaN THEN NaN ELSE a + b
FSub(a, b) == IF a = NaN \/ b = NaN THEN NaN ELSE a - b
FMul(a, b) == IF a = NaN \/ b = NaN THEN NaN ELSE a * b
FDiv(a, b) == IF a = NaN \/ b = NaN THEN NaN ELSE a \div b
FLess(a, b) == a # NaN /\ b # NaN /\ a < b
HasNaN(s) == \E i \in 1..Len(s) : s[i] = NaN

\* Series.tail(n)
TailN(s, n) == IF Len(s) <= n THEN s ELSE SubSeq(s, Len(s) - n + 1, Len(s))
\* the observations pandas reductions keep (skipna)
DropNa(s) == SelectSeq(s, LAMBDA x : x # NaN)
\* Series.mean(): NaN when nothing is left
Mean(s) ==
    LET v == DropNa(s)
    IN  IF v = <<>> THEN NaN ELSE SumSeq(v) \div Len(v)
\* Series.std(), ddof = 1: NaN with fewer than two observations
Std(s) ==
    LET v == DropNa(s)
        m == SumSeq(v) \div Len(v)
    IN  IF Len(v) < 2 THEN NaN
        ELSE ISqrt(SumSeq([i \in 1..Len(v) |-> (v[i] - m) * (v[i] - m)]) \div (Len(v) - 1))
\* np.mean(): no skipping
NpMean(s) == IF HasNaN(s) THEN NaN ELSE SumSeq(s) \div Len(s)

\* pandas Series.median(): middle element, or the mean of the two middle ones
Median(s) ==
    LET sorted == SortSeq(s, LAMBDA a, b : a < b)
        n == Len(s)
    IN  IF n % 2 = 1 THEN sorted[(n + 1) \div 2]
        ELSE (sorted[n \div 2] + sorted[n \div 2 + 1]) \div 2

----------------------------------------------------------------------------
(* Risk confidence calibrator: risk_vs_predict.py                          *)

PriceOne == 1000000
RISK_SUPPRESS_THRESHOLD == 85
LowRiskBound == 30
HighRiskBound == 70
ConfFloor == 4000
ConfCeil == 9000
ConfStep == 500
\* np.isclose(pred, actual, rtol=1e-6, atol=1e-6): |pred - actual| <= atol + rtol * |actual|
IsCloseAtol == 1
IsCloseRtolInv == 1000000

MaxRows == 3

\* rows of the frame after the cleaning of line 81: finite risk, actual price
\* and reconstructed prediction
RiskValues == {0, LowRiskBound, HighRiskBound, 90}
RowValues ==
    { [risk |-> r, actual_price |-> PriceOne, predicted_price_recon |-> PriceOne + d] :
        r \in RiskValues, d \in {2, 3, 5000, 300000} }
    \cup
    { [risk |-> r, actual_price |-> 0, predicted_price_recon |-> 5000] : r \in RiskValues }

\* (differences past 2000 units are far outside the tolerance for any price here)
IsClose(pred, actual) ==
    LET d == Abs(pred - actual)
    IN  /\ d <= 2000
        /\ d * IsCloseRtolInv <= IsCloseAtol * IsCloseRtolInv + Abs(actual)

\* |pred - actual| / actual * 100, in basis points (actual a non-zero multiple
\* of 100 units)
AbsErrorPct(pred, actual) == (Abs(pred - actual) * 100) \div (actual \div 100)

\* 90 / (1 + exp((e - 15) / 5)) at e = 0, 1, ..., 31 percent, in hundredths
LogisticTable ==
    << 8573, 8484, 8378, 8251, 8102, 7927, 7723, 7488, 7220, 6917, 6580,
       6210, 5811, 5388, 4949, 4500, 4051, 3612, 3189, 2790, 2420, 2083,
       1780, 1512, 1277, 1073, 898, 749, 622, 516, 427, 352 >>

\* the logistic value at an error given in basis points: the table, linearly
\* interpolated between whole percents; past the table the curve is below 3.52
LogisticVal(error_bp) ==
    LET k == error_bp \div 100
        f == error_bp % 100
    IN  IF k + 2 > Len(LogisticTable) THEN LogisticTable[Len(LogisticTable)]
        ELSE LogisticTable[k + 1]
             - ((LogisticTable[k + 1] - LogisticTable[k + 2]) * f) \div 100

confidence_from_error_pct(error_bp) ==
    Max2(ConfFloor, Min2(ConfCeil, LogisticVal(error_bp)))

IsSuppressed(row) == row.risk > RISK_SUPPRESS_THRESHOLD
IsValidAlways(row) == TRUE
IsValid(row) == ~IsSuppressed(row)

low_mask(row) == row.risk < LowRiskBound /\ IsValid(row)
med_mask(row) == row.risk >= LowRiskBound /\ row.risk < HighRiskBound /\ IsValid(row)
high_mask(row) == row.risk >= HighRiskBound /\ IsValid(row)

RECURSIVE ErrSeq(_)
ErrSeq(rows) ==
    IF rows = <<>> THEN <<>>
    ELSE <<AbsErrorPct(Head(rows).predicted_price_recon, Head(rows).actual_price)>>
         \o ErrSeq(Tail(rows))

InZone(row, zone) ==
    CASE zone = "low" -> low_mask(row)
      [] zone = "medium" -> med_mask(row)
      [] OTHER -> high_mask(row)

zone_confidence(rows, zone_name) ==
    LET zone == SelectSeq(rows, LAMBDA r : InZone(r, zone_name))
        \* replace(0, nan) makes the error of a zero actual NaN; dropna removes it
        zone_err_pct == ErrSeq(SelectSeq(zone, LAMBDA r : r.actual_price # 0))
    IN  IF zone = <<>> THEN ConfFloor
        ELSE IF zone_err_pct = <<>> THEN ConfFloor
        ELSE confidence_from_error_pct(Median(zone_err_pct))

EnforceMediumNoReclamp(med_conf, high_conf) ==
    IF med_conf <= high_conf
    THEN Max2(med_conf, high_conf + ConfStep)
    ELSE med_conf

\* lines 203-206: Medium is raised above High
EnforceMedium(med_conf, high_conf) ==
    IF med_conf <= high_conf
    THEN Min2(ConfCeil, Max2(med_conf, high_conf + ConfStep))
    ELSE med_conf

EnforceLowNoReclamp(low_conf, med_conf) ==
    IF low_conf <= med_conf
    THEN Max2(low_conf, med_conf + ConfStep)
    ELSE low_conf

\* lines 208-210: Low is raised above the (possibly raised) Medium
EnforceLow(low_conf, med_conf) ==
    IF low_conf <= med_conf
    THEN Min2(ConfCeil, Max2(low_conf, med_conf + ConfStep))
    ELSE low_conf

MatchCount(rows) ==
    Len(SelectSeq(rows, LAMBDA r : IsClose(r.predicted_price_recon, r.actual_price)))

LeakageDetectedAtHalf(rows) ==
    LET valid == SelectSeq(rows, IsValid)
    IN  valid # <<>> /\ 2 * MatchCount(valid) >= Len(valid)

\* lines 94-97: np.mean(isclose) > 0.5 over the valid pairs
LeakageDetected(rows) ==
    LET valid == SelectSeq(rows, IsValid)
    IN  valid # <<>> /\ 2 * MatchCount(valid) > Len(valid)

\* lines 115-119 and 228: pd.cut with bins [0, 0.3, 0.7, 1.0], intervals closed
\* on the right and open on the left; a value in no interval is NaN, which
\* astype(str) renders as "nan"
risk_zone(risk) ==
    IF risk > 0 /\ risk <= LowRiskBound THEN "Low Risk"
    ELSE IF risk > LowRiskBound /\ risk <= HighRiskBound THEN "Medium Risk"
    ELSE IF risk > HighRiskBound /\ risk <= 100 THEN "High Risk"
    ELSE "nan"

\* Python's None in a JSON list
None == -999999998

\* lines 84-86: the prediction of a suppressed row becomes NaN
Suppress(row) ==
    IF IsSuppressed(row) THEN [row EXCEPT !.predicted_price_recon = NaN] ELSE row

\* lines 130-137 with .where(pd.notna(...), None): NaN leaves as None
safe_value(value) == IF value = NaN THEN None ELSE value

\* lines 99-108, 139-152: the statistics over the valid pairs, in price units
Statistics(df) ==
    LET valid == SelectSeq(df, IsValid)
        n == Len(valid)
        abs_error == [i \in 1..n |-> Abs(valid[i].predicted_price_recon - valid[i].actual_price)]
        mean_abs_error == IF n = 0 THEN 0 ELSE SumSeq(abs_error) \div n
    IN  [average_actual |->
            IF n = 0 THEN 0 ELSE SumSeq([i \in 1..n |-> valid[i].actual_price]) \div n,
         average_predicted |->
            IF n = 0 THEN 0 ELSE SumSeq([i \in 1..n |-> valid[i].predicted_price_recon]) \div n,
         \* a zero error is reported as 0.01
         mean_absolute_error |-> IF mean_abs_error = 0 THEN PriceOne \div 100 ELSE mean_abs_error]

NoResponse ==
    [status |-> "none",
     risk_levels |-> <<>>,
     risk_zones |-> <<>>,
     predicted_prices |-> <<>>,
     actual_prices |-> <<>>,
     prediction_suppressed |-> <<>>,
     statistics |-> [average_actual |-> 0, average_predicted |-> 0, mean_absolute_error |-> 0],
     raw_confidence |-> [low |-> 0, medium |-> 0, high |-> 0],
     risk_confidence |-> [low |-> 0, medium |-> 0, high |-> 0]]

generate_prediction_response(df) ==
    IF LeakageDetected(df)
    THEN [NoResponse EXCEPT !.status = "raised"]
    ELSE
        LET sorted == SortSeq(df, LAMBDA a, b : a.risk < b.risk)
            low_conf == zone_confidence(sorted, "low")
            med_conf == zone_confidence(sorted, "medium")
            high_conf == zone_confidence(sorted, "high")
            med_fixed == EnforceMedium(med_conf, high_conf)
            low_fixed == EnforceLow(low_conf, med_fixed)
        IN  [status |-> "ok",
             risk_levels |-> [i \in 1..Len(sorted) |-> sorted[i].risk],
             risk_zones |-> [i \in 1..Len(sorted) |-> risk_zone(sorted[i].risk)],
             predicted_prices |->
                [i \in 1..Len(sorted) |-> safe_value(Suppress(sorted[i]).predicted_price_recon)],
             actual_prices |-> [i \in 1..Len(sorted) |-> safe_value(sorted[i].actual_price)],
             prediction_suppressed |->
                [i \in 1..Len(sorted) |-> sorted[i].risk > RISK_SUPPRESS_THRESHOLD],
             statistics |-> Statistics(df),
             raw_confidence |-> [low |-> low_conf, medium |-> med_conf, high |-> high_conf],
             risk_confidence |-> [low |-> low_fixed, medium |-> med_fixed, high |-> high_conf]]

----------------------------------------------------------------------------
(* Reconstruction and cleaning: risk_vs_predict.py, lines 46-81            *)
(* Prices of the raw frame in hundredths, returns in units of 1e-5.        *)

MaxRaw == 3
ReturnOne == 100000

\* what load_and_validate_data gives: rows with both prices present, in time
\* order, with or without a predicted_return column
RawActualValues == {0, 120, 150}
RawPredictedValues == {100, 151}
RawReturnValues == {-5000, 2000}
RawRows(has_predicted_return) ==
    [actual_price : RawActualValues, predicted_price : RawPredictedValues,
     predicted_return : IF has_predicted_return THEN RawReturnValues ELSE {NaN}]

NoFrame == [has_predicted_return |-> FALSE, rows |-> <<>>]
NoCleaned == [status |-> "none", rows |-> <<>>]

\* line 49: df["actual_price"].shift(1)
prev_price(rows, i) == IF i = 1 THEN NaN ELSE rows[i - 1].actual_price

\* (price - prev_price) / prev_price; a division by zero gives inf or NaN,
\* and line 80 turns inf into NaN
ReturnOn(price, prev) ==
    IF prev = 0 THEN NaN ELSE FDiv(FMul(FSub(price, prev), ReturnOne), prev)

predicted_return_from_actual(df, i) ==
    ReturnOn(df.rows[i].actual_price, prev_price(df.rows, i))

\* lines 72-75: the column of the corpus, or derived from the raw prediction
predicted_return(df, i) ==
    IF df.has_predicted_return THEN df.rows[i].predicted_return
    ELSE ReturnOn(df.rows[i].predicted_price, prev_price(df.rows, i))

\* lines 49-77: the columns the rest of the function reads. With fewer rows
\* than the rolling window of 20 the rolling volatility is NaN throughout and
\* line 61 sets the risk of every row to 0.0
engineer(df) ==
    [i \in 1..Len(df.rows) |->
        LET prev == prev_price(df.rows, i)
            ret == predicted_return(df, i)
        IN  [actual_price |-> df.rows[i].actual_price,
             predicted_price |-> df.rows[i].predicted_price,
             prev_price |-> prev,
             actual_return |-> ReturnOn(df.rows[i].actual_price, prev),
             predicted_return |-> ret,
             predicted_price_recon |->
                FDiv(FMul(prev, FAdd(ReturnOne, ret)), ReturnOne),
             risk |-> 0]]

\* lines 80-81: rows with inf or NaN in a column of the subset are dropped
reconstruct_and_clean(df) ==
    [status |-> "ok",
     rows |-> SelectSeq(engineer(df),
                LAMBDA row : /\ row.prev_price # NaN
                             /\ row.actual_price # NaN
                             /\ row.predicted_price_recon # NaN
                             /\ row.actual_return # NaN
                             /\ row.predicted_return # NaN
                             /\ row.risk # NaN)]

----------------------------------------------------------------------------
(* GET /risk-vs-prediction: api/risk.py                                    *)

\* generate_sample_prediction_data: with the fixed seed every sample risk level
\* is far below 0.33, so the shares of the counts are 100 / 0 / 0
SampleRiskConfidence == [low |-> 10000, medium |-> 0, high |-> 0]

NoReply ==
    [source |-> "none", file_found |-> FALSE, success |-> FALSE,
     risk_confidence |-> [low |-> 0, medium |-> 0, high |-> 0]]

generate_sample_prediction_data ==
    [NoReply EXCEPT !.source = "sample", !.success = TRUE,
                    !.risk_confidence = SampleRiskConfidence]

\* lines 202-223: the computed response, or the sample data on FileNotFoundError
\* and on any other exception
risk_vs_prediction(file_found, df) ==
    IF ~file_found THEN generate_sample_prediction_data
    ELSE LET data == generate_prediction_response(df)
         IN  IF data.status = "raised"
             THEN [generate_sample_prediction_data EXCEPT !.file_found = TRUE]
             ELSE [source |-> "computed", file_found |-> TRUE, success |-> TRUE,
                   risk_confidence |-> data.risk_confidence]

----------------------------------------------------------------------------
(* Confidence scorer: price_predictor.py, _calculate_confidence_score      *)
(* Arguments in tenths of a percent, scores in twentieths of a point.      *)

ScoreUnit == 20
ScoreBase == 100 * ScoreUnit
ScoreFloor == 10 * ScoreUnit
ScoreCeil == 95 * ScoreUnit

\* Python's None for the accuracy metrics, and a dict as a function on its keys
NoMetrics == [none |-> TRUE, dict |-> <<>>]
MetricsDict(d) == [none |-> FALSE, dict |-> d]

\* `if accuracy_metrics`: None and the empty dict are falsy
Truthy(accuracy_metrics) ==
    ~accuracy_metrics.none /\ DOMAIN accuracy_metrics.dict # {}

\* Python's min(a, b) and max(a, b): b only when the comparison with a succeeds
PyMin(a, b) == IF FLess(b, a) THEN b ELSE a
PyMax(a, b) == IF FLess(a, b) THEN b ELSE a

calculate_confidence_score_unclamped(interval_width_pct, volatility, accuracy_metrics) ==
    LET s0 == ScoreBase
        s1 == FSub(s0, IF interval_width_pct = NaN THEN NaN ELSE interval_width_pct * 4)
        s2 == FSub(s1, volatility)
    IN  IF Truthy(accuracy_metrics) /\ "mape" \in DOMAIN accuracy_metrics.dict
        THEN FSub(s2, IF accuracy_metrics.dict.mape = NaN THEN NaN
                      ELSE accuracy_metrics.dict.mape * 2)
        ELSE s2

calculate_confidence_score_no_floor(interval_width_pct, volatility, accuracy_metrics) ==
    PyMin(ScoreCeil,
          calculate_confidence_score_unclamped(interval_width_pct, volatility, accuracy_metrics))

calculate_confidence_score_no_mape(interval_width_pct, volatility, accuracy_metrics) ==
    PyMax(ScoreFloor, PyMin(ScoreCeil,
          calculate_confidence_score_unclamped(interval_width_pct, volatility, NoMetrics)))

calculate_confidence_score_mape_bonus(interval_width_pct, volatility, accuracy_metrics) ==
    PyMax(ScoreFloor, PyMin(ScoreCeil,
          FAdd(calculate_confidence_score_unclamped(interval_width_pct, volatility, NoMetrics),
               IF Truthy(accuracy_metrics) /\ "mape" \in DOMAIN accuracy_metrics.dict
               THEN accuracy_metrics.dict.mape * 2 ELSE 0)))

calculate_confidence_score(interval_width_pct, volatility, accuracy_metrics) ==
    PyMax(ScoreFloor, PyMin(ScoreCeil,
          calculate_confidence_score_unclamped(interval_width_pct, volatility, accuracy_metrics)))

\* finite arguments: negative, zero and large widths, zero volatility, MAPE 0 and 100
WidthValues == {-50, 0, 13, 100, 600}
VolatilityValues == {0, 7, 300, 2500}
MetricsValues ==
    {NoMetrics, MetricsDict(<<>>), MetricsDict([rmse |-> 5])}
    \cup { MetricsDict([rmse |-> 5, mae |-> 4, mape |-> m, test_size |-> 2]) :
             m \in {0, 50, 1000} }
ScoreArgs ==
    [interval_width_pct : WidthValues, volatility : VolatilityValues,
     accuracy_metrics : MetricsValues]


----------------------------------------------------------------------------
(* Ensemble forecaster, fallback and backtester: price_predictor.py        *)
(* Prices in hundredths, percentages in tenths of a percent, returns in    *)
(* units of 1e-5, dates in days after the last observation.                *)

WINDOW == 120
MaTail == 5
TrendDamping == 10
\* 1.96 as 196 / 100
ZValue == 196
\* sqrt(252) as 15875 / 1000
SqrtTradingDays == 15875

MaxHist == 10
MaxSteps == 2
MaxChanges == 1

PriceValues == {10000, 10500}

\* What the statsmodels calls of one request do: where the try block of lines
\* 52-80 raises (if it does), and the fitted models' forecast slopes.
LibOutcomes ==
    [failure : {"none"}, arima_slope : {0, 20}, sarima_slope : {40}]
    \cup [failure : {"arima_fit", "sarima_fit", "get_forecast"},
          arima_slope : {0}, sarima_slope : {40}]
\* the same for the backtest on the training portion, lines 108-120: which of
\* the re-fits, the forecasts or the metric functions raises (if any)
BacktestOutcomes ==
    [failure : {"none"}, slope : {0, 20}]
    \cup [failure : {"arima_refit", "sarima_refit", "forecast", "metrics"}, slope : {0}]
\* half width of a sub-model's confidence interval, per step ahead
CiWidth == [arima |-> 100, sarima |-> 300]

Last(s) == s[Len(s)]

\* lines 61-70: the point forecast and interval of one fitted sub-model
SubModelForecast(historical, steps, slope, width) ==
    [i \in 1..steps |->
        [mean |-> FAdd(Last(historical), slope * i),
         lower |-> FAdd(Last(historical), slope * i - width * i),
         upper |-> FAdd(Last(historical), slope * i + width * i)]]

NoSubModels == [arima |-> <<>>, sarima |-> <<>>]

ensemble_forecast_union(historical, steps, lib) ==
    LET arima == SubModelForecast(historical, steps, lib.arima_slope, CiWidth.arima)
        sarima == SubModelForecast(historical, steps, lib.sarima_slope, CiWidth.sarima)
    IN  [path |-> "ensemble",
         sub_models |-> [arima |-> arima, sarima |-> sarima],
         final_fc |-> [i \in 1..steps |-> FDiv(FAdd(arima[i].mean, sarima[i].mean), 2)],
         lower_bound |-> [i \in 1..steps |-> Min2(arima[i].lower, sarima[i].lower)],
         upper_bound |-> [i \in 1..steps |-> Max2(arima[i].upper, sarima[i].upper)],
         forecast_std |->
            [i \in 1..steps |-> Abs(arima[i].mean - sarima[i].mean) \div 2]]

\* lines 73-80: the average of the two sub-models
ensemble_forecast(historical, steps, lib) ==
    LET arima == SubModelForecast(historical, steps, lib.arima_slope, CiWidth.arima)
        sarima == SubModelForecast(historical, steps, lib.sarima_slope, CiWidth.sarima)
    IN  [path |-> "ensemble",
         sub_models |-> [arima |-> arima, sarima |-> sarima],
         final_fc |-> [i \in 1..steps |-> FDiv(FAdd(arima[i].mean, sarima[i].mean), 2)],
         lower_bound |-> [i \in 1..steps |-> FDiv(FAdd(arima[i].lower, sarima[i].lower), 2)],
         upper_bound |-> [i \in 1..steps |-> FDiv(FAdd(arima[i].upper, sarima[i].upper), 2)],
         forecast_std |->
            [i \in 1..steps |->
                IF arima[i].mean = NaN \/ sarima[i].mean = NaN THEN NaN
                ELSE Abs(arima[i].mean - sarima[i].mean) \div 2]]

\* a forecast from the one sub-model that was fitted
single_model_forecast(historical, steps, slope, width) ==
    LET one == SubModelForecast(historical, steps, slope, width)
    IN  [path |-> "ensemble",
         sub_models |-> [arima |-> one, sarima |-> one],
         final_fc |-> [i \in 1..steps |-> one[i].mean],
         lower_bound |-> [i \in 1..steps |-> one[i].lower],
         upper_bound |-> [i \in 1..steps |-> one[i].upper],
         forecast_std |-> [i \in 1..steps |-> 0]]

\* lines 82-99: the except branch
fallback_forecast(historical, steps) ==
    LET last_price == Last(historical)
        ma == Mean(TailN(historical, MaTail))
        trend == FDiv(FSub(last_price, ma), TrendDamping)
        final_fc == [i \in 1..steps |-> FAdd(last_price, FMul(trend, i))]
        std == Std(historical)
        band == FDiv(FMul(std, ZValue), 100)
    IN  [path |-> "fallback",
         sub_models |-> NoSubModels,
         final_fc |-> final_fc,
         lower_bound |-> [i \in 1..steps |-> FSub(final_fc[i], band)],
         upper_bound |-> [i \in 1..steps |-> FAdd(final_fc[i], band)],
         forecast_std |-> [i \in 1..steps |-> std]]

forecast_step_partial(historical, steps, lib) ==
    IF lib.failure = "none" THEN ensemble_forecast(historical, steps, lib)
    ELSE IF lib.failure = "sarima_fit"
    THEN single_model_forecast(historical, steps, lib.arima_slope, CiWidth.arima)
    ELSE fallback_forecast(historical, steps)

\* lines 52-99: the try block, and the except branch when anything in it raises
forecast_step(historical, steps, lib) ==
    IF lib.failure = "none" THEN ensemble_forecast(historical, steps, lib)
    ELSE fallback_forecast(historical, steps)

TrainSizeRounded(historical) == (Len(historical) * 8 + 5) \div 10

\* lines 102-103: int(len * 0.8)
TrainSize(historical) == (Len(historical) * 8) \div 10

\* line 103: train, test = historical[:train_size], historical[train_size:]
backtest_split(historical) ==
    [train |-> SubSeq(historical, 1, TrainSize(historical)),
     test |-> SubSeq(historical, TrainSize(historical) + 1, Len(historical))]

backtest_raises_arima_only(bt) == bt.failure = "arima_refit"

\* lines 105-132: everything of the backtest is inside one try
backtest_raises(bt) == bt.failure # "none"

\* lines 105-132: the backtest; whatever raises inside leaves the metrics None
NotCalled == [called |-> FALSE, endog |-> <<>>]

\* lines 113-116: the forecast of the two re-fitted models over the test period
ensemble_test_forecast(train, test_steps, bt) ==
    LET base == IF train = <<>> THEN NaN ELSE Last(train)
    IN  [i \in 1..test_steps |-> FAdd(base, bt.slope * i)]

\* lines 105-116: what the backtest hands to the library before anything raises:
\* the series of each re-fit and the forecast of the test period
backtest_calls(historical, bt) ==
    LET split == backtest_split(historical)
        fit == [called |-> TRUE, endog |-> split.train]
        skipped == [train |-> split.train, test |-> split.test,
                    arima_train |-> NotCalled, sarima_train |-> NotCalled,
                    forecast_made |-> FALSE, test_steps |-> 0, ensemble_test_fc |-> <<>>]
    IN  IF split.test = <<>> THEN skipped
        ELSE IF bt.failure = "arima_refit" THEN [skipped EXCEPT !.arima_train = fit]
        ELSE IF bt.failure = "sarima_refit"
        THEN [skipped EXCEPT !.arima_train = fit, !.sarima_train = fit]
        ELSE IF bt.failure = "forecast"
        THEN [skipped EXCEPT !.arima_train = fit, !.sarima_train = fit,
                             !.test_steps = Len(split.test)]
        ELSE [skipped EXCEPT !.arima_train = fit, !.sarima_train = fit,
                             !.forecast_made = TRUE,
                             !.test_steps = Len(split.test),
                             !.ensemble_test_fc =
                                ensemble_test_forecast(split.train, Len(split.test), bt)]

NoBacktestCalls ==
    [train |-> <<>>, test |-> <<>>, arima_train |-> NotCalled, sarima_train |-> NotCalled,
     forecast_made |-> FALSE, test_steps |-> 0, ensemble_test_fc |-> <<>>]

backtest(historical, bt) ==
    LET train == backtest_split(historical).train
        test == backtest_split(historical).test
        n == Len(test)
        ensemble_test_fc == ensemble_test_forecast(train, n, bt)
        err == [i \in 1..n |-> Abs(test[i] - ensemble_test_fc[i])]
    IN  IF n = 0 THEN NoMetrics
        ELSE IF backtest_raises(bt) THEN NoMetrics
        \* sklearn's metrics raise on NaN input
        ELSE IF HasNaN(test) \/ HasNaN(ensemble_test_fc) THEN NoMetrics
        ELSE MetricsDict(
                [rmse |-> ISqrt(SumSeq([i \in 1..n |-> err[i] * err[i]]) \div n),
                 mae |-> SumSeq(err) \div n,
                 mape |-> SumSeq([i \in 1..n |-> (err[i] * 1000) \div Abs(test[i])]) \div n,
                 test_size |-> n])

\* line 144: historical.pct_change().dropna()
Returns(historical) ==
    DropNa([i \in 1..(Len(historical) - 1) |->
                IF historical[i] = NaN \/ historical[i + 1] = NaN THEN NaN
                ELSE ((historical[i + 1] - historical[i]) * 100000) \div historical[i]])

\* line 145: annualised volatility in percent
Volatility(historical) ==
    LET returns == Returns(historical)
    IN  IF Len(returns) > 0
        THEN FDiv(FMul(Std(returns), SqrtTradingDays), 100000)
        ELSE 0

\* lines 150-152, the percentage kept in units of 100 / scale percent
IntervalWidthScaled(fc, scale) ==
    LET steps == Len(fc.final_fc)
        avg_fc == NpMean(fc.final_fc)
        avg_width == NpMean([i \in 1..steps |-> FSub(fc.upper_bound[i], fc.lower_bound[i])])
    IN  IF avg_fc # 0 THEN FDiv(FMul(avg_width, scale), avg_fc) ELSE 0

\* the unit of the scorer's inputs, and a unit fine enough to tell apart
\* percentages that differ in the third decimal
ScorerScale == 1000
FineScale == 1000000

\* lines 150-152
IntervalWidthPct(fc) == IntervalWidthScaled(fc, ScorerScale)

\* (a * FineScale) \div b for a >= 0 and b > 0, in two steps of ScorerScale
\* each so that the product stays within the integers at hand
FineDiv(a, b) ==
    LET whole == (a * ScorerScale) \div b
        rest == (a * ScorerScale) % b
    IN  whole * ScorerScale + (rest * ScorerScale) \div b

\* lines 150-152, the same percentage in units of 100 / FineScale percent
IntervalWidthFine(fc) ==
    LET steps == Len(fc.final_fc)
        avg_fc == NpMean(fc.final_fc)
        avg_width == NpMean([i \in 1..steps |-> FSub(fc.upper_bound[i], fc.lower_bound[i])])
    IN  IF avg_fc = NaN \/ avg_width = NaN THEN NaN
        ELSE IF avg_fc # 0 THEN FineDiv(avg_width, avg_fc) ELSE 0

build_forecast_skip_first(fc, steps) ==
    [i \in 1..(steps - 1) |->
        [date |-> i + 1,
         price |-> fc.final_fc[i + 1],
         lower_bound |-> fc.lower_bound[i + 1],
         upper_bound |-> fc.upper_bound[i + 1],
         std_dev |-> fc.forecast_std[i + 1]]]

\* lines 135-138 and 169-178: one forecast point per requested step
build_forecast(fc, steps) ==
    [i \in 1..steps |->
        [date |-> i,
         price |-> fc.final_fc[i],
         lower_bound |-> fc.lower_bound[i],
         upper_bound |-> fc.upper_bound[i],
         std_dev |-> fc.forecast_std[i]]]

truncate_then_append(provided, live_price) ==
    Append(TailN(provided, WINDOW), live_price)

\* lines 36-37 (and 816-817): historical.loc[now] = live_price, then
\* historical = historical.tail(120)
append_then_truncate(provided, live_price) ==
    TailN(Append(provided, live_price), WINDOW)

\* lines 52-58 (and 830-831): the series each fit of the forecast is given;
\* the seasonal fit is not reached when the first one raises
main_fits(historical, lib) ==
    [arima |-> [called |-> TRUE, endog |-> historical],
     sarima |-> IF lib.failure = "arima_fit" THEN NotCalled
                ELSE [called |-> TRUE, endog |-> historical]]

NoFits == [arima |-> NotCalled, sarima |-> NotCalled]

NoPrediction ==
    [status |-> "none", provided |-> <<>>, handed_over |-> <<>>,
     historical |-> <<>>, steps |-> 0,
     live_price |-> 0, lib_failure |-> "none", path |-> "none", forecast |-> <<>>,
     sub_models |-> NoSubModels,
     predicted_t1 |-> 0, predicted_t10 |-> 0, volatility |-> 0,
     interval_width_pct |-> 0, interval_width_fine |-> 0, bt_failure |-> "none",
     confidence_score |-> 0, accuracy_metrics |-> NoMetrics,
     backtest_calls |-> NoBacktestCalls, fits |-> NoFits,
     ensemble_method |-> "none"]

predict_price(provided, live_price, steps, lib, bt) ==
    \* get_historical raises when the provider has nothing for the symbol
    IF provided = <<>> THEN [NoPrediction EXCEPT !.status = "raised"]
    ELSE
        LET \* line 36: .loc[now] = live_price enlarges the Series object that
            \* get_historical returned; line 37: tail() gives a new object
            handed_over == Append(provided, live_price)
            historical == append_then_truncate(provided, live_price)
            fc == forecast_step(historical, steps, lib)
            \* line 99 sets None on the fallback path; lines 122-132 then assign
            \* the backtest's outcome on every path
            accuracy_metrics == backtest(historical, bt)
            volatility == Volatility(historical)
            interval_width_pct == IntervalWidthPct(fc)
        IN  [status |-> "ok",
             provided |-> provided,
             handed_over |-> handed_over,
             historical |-> historical,
             steps |-> steps,
             live_price |-> live_price,
             lib_failure |-> lib.failure,
             path |-> fc.path,
             sub_models |-> fc.sub_models,
             forecast |-> build_forecast(fc, steps),
             predicted_t1 |-> fc.final_fc[1],
             predicted_t10 |-> fc.final_fc[steps],
             volatility |-> volatility,
             interval_width_pct |-> interval_width_pct,
             interval_width_fine |-> IntervalWidthFine(fc),
             bt_failure |-> bt.failure,
             confidence_score |->
                calculate_confidence_score(interval_width_pct, volatility, accuracy_metrics),
             accuracy_metrics |-> accuracy_metrics,
             backtest_calls |-> backtest_calls(historical, bt),
             fits |-> main_fits(historical, lib),
             ensemble_method |-> "simple_average"]

----------------------------------------------------------------------------
(* Advisor._make_forecast: advisor.py                                      *)

MinFitLength == 10

\* What ModelTrainer.train_arima / train_sarima give back: (None, None), or
\* predictions of which `valid` points are not NaN
TrainOutcomes(forecast_days) ==
    [preds_none : {TRUE}, valid : {0}] \cup [preds_none : {FALSE}, valid : 0..forecast_days]

\* lines 306-312 (and 325-331, 366-372): repeat the last clean close
naive_forecast(clean_close, forecast_days) ==
    IF clean_close = <<>> THEN <<>>
    ELSE [i \in 1..Max2(1, forecast_days) |-> [date |-> i, value |-> Last(clean_close)]]

make_forecast(close, forecast_days, trained) ==
    LET clean_close == DropNa(close)
        naive == [status |-> "ok", close |-> close, forecast_days |-> forecast_days,
                  source |-> "naive",
                  forecast |-> naive_forecast(clean_close, forecast_days)]
        \* to_points: the points of the model forecast that are not NaN
        points == [i \in 1..trained.valid |-> [date |-> i, value |-> Last(clean_close) + 20 * i]]
    IN  IF Len(clean_close) < MinFitLength THEN naive
        ELSE IF trained.preds_none THEN naive
        ELSE IF points = <<>> THEN naive
        ELSE [naive EXCEPT !.source = "model", !.forecast = points]

NoAdvice ==
    [status |-> "none", close |-> <<>>, forecast_days |-> 0, source |-> "none",
     forecast |-> <<>>]

----------------------------------------------------------------------------
(* compare_models: price_predictor.py                                      *)

NoComparison ==
    [status |-> "none", historical |-> <<>>, steps |-> 0, lib_failure |-> "none",
     provided |-> <<>>, live_price |-> 0, fits |-> NoFits,
     arima_prediction |-> [t1 |-> 0, t10 |-> 0],
     sarima_prediction |-> [t1 |-> 0, t10 |-> 0]]

\* lines 813-852: the fits and forecasts are not inside any try
compare_models(provided, live_price, steps, lib) ==
    IF provided = <<>> THEN [NoComparison EXCEPT !.status = "raised"]
    ELSE
        LET historical == append_then_truncate(provided, live_price)
            asked == [NoComparison EXCEPT !.historical = historical, !.steps = steps,
                                          !.lib_failure = lib.failure,
                                          !.provided = provided,
                                          !.live_price = live_price,
                                          !.fits = main_fits(historical, lib)]
        IN  IF lib.failure # "none" THEN [asked EXCEPT !.status = "raised"]
            ELSE [asked EXCEPT
                    !.status = "ok",
                    !.arima_prediction =
                        [t1 |-> FAdd(Last(historical), lib.arima_slope),
                         t10 |-> FAdd(Last(historical), lib.arima_slope * steps)],
                    !.sarima_prediction =
                        [t1 |-> FAdd(Last(historical), lib.sarima_slope),
                         t10 |-> FAdd(Last(historical), lib.sarima_slope * steps)]]

----------------------------------------------------------------------------
(* POST /train: main.py                                                    *)

MinTrainLength == 20

\* req.close: runs of one price around the minimum length, with or without a
\* value that to_numeric cannot read
TrainCloses ==
    { [i \in 1..n |-> IF i = 1 /\ bad THEN NaN ELSE v] :
        n \in {MinTrainLength - 1, MinTrainLength, MinTrainLength + 1},
        v \in PriceValues, bad \in BOOLEAN }

NoTraining ==
    [status |-> "none", code |-> 0, close |-> <<>>, model_type |-> "none",
     forecast_days |-> 0, fit_failed |-> FALSE, forecast |-> <<>>]

\* lines 622-698; trainer.train_arima / train_sarima give (None, None) when
\* anything in them raises, the fit included
train(close, model_type, forecast_days, trained) ==
    LET clean == DropNa(close)
        asked == [NoTraining EXCEPT !.close = close, !.model_type = model_type,
                                    !.forecast_days = forecast_days]
        forecast == [i \in 1..trained.valid |-> [date |-> i, value |-> Last(clean) + 20 * i]]
        repeated == [i \in 1..Max2(1, forecast_days) |-> [date |-> i, value |-> Last(clean)]]
    IN  IF Len(clean) < MinTrainLength
        THEN [asked EXCEPT !.status = "http_error", !.code = 400]
        ELSE IF trained.preds_none
        THEN [asked EXCEPT !.status = "http_error", !.code = 500, !.fit_failed = TRUE]
        ELSE [asked EXCEPT !.status = "ok", !.code = 200,
                           !.forecast = IF forecast = <<>> THEN repeated ELSE forecast]

----------------------------------------------------------------------------
(* GET /api/predict and GET /api/predict/{symbol}: main.py;                *)
(* get_prediction_with_analysis and analyze_investment: price_predictor.py *)

\* the default of the `steps` parameter of get_prediction_with_analysis, and
\* the steps analyze_investment asks predict_price for
DefaultSteps == 10
AnalysisSteps == 10

\* what one run of predict_price meets: the live price fetched by that run and
\* what the library does in it (the fits work or the first one raises; the
\* backtest works)
Runs ==
    [live_price : PriceValues,
     lib : {lib \in LibOutcomes : lib.failure \in {"none", "arima_fit"} /\ lib.arima_slope = 0},
     bt : {bt \in BacktestOutcomes : bt.failure = "none" /\ bt.slope = 0}]

\* the run of the analysis: another live price, the fits working
AnalysisRuns == {run \in Runs : run.lib.failure = "none"}

\* lines 282-342: the analysis asks for a forecast of its own
analyze_investment(provided, run) ==
    LET prediction_data ==
            predict_price(provided, run.live_price, AnalysisSteps, run.lib, run.bt)
        live_price == prediction_data.live_price
        predicted_t10 == prediction_data.predicted_t10
    IN  [live_price |-> live_price,
         predicted_t1 |-> prediction_data.predicted_t1,
         predicted_t10 |-> predicted_t10,
         historical_data |-> prediction_data.historical,
         steps |-> prediction_data.steps,
         confidence_score |-> prediction_data.confidence_score,
         expected_return_pct |-> FDiv(FMul(FSub(predicted_t10, live_price), 1000), live_price)]

NoAnalysis ==
    [status |-> "none", endpoint |-> "none", requested_steps |-> 0,
     prediction |-> NoPrediction,
     investment_analysis |->
        [live_price |-> 0, predicted_t1 |-> 0, predicted_t10 |-> 0,
         historical_data |-> <<>>, steps |-> 0, confidence_score |-> 0,
         expected_return_pct |-> 0]]

\* lines 759-777: two runs of predict_price, one after the other
get_prediction_with_analysis(provided, steps, first, second) ==
    IF provided = <<>> THEN [NoAnalysis EXCEPT !.status = "raised"]
    ELSE [NoAnalysis EXCEPT
            !.status = "ok",
            !.prediction = predict_price(provided, first.live_price, steps, first.lib, first.bt),
            !.investment_analysis = analyze_investment(provided, second)]

\* main.py lines 830-856: GET /api/predict; `steps` is validated and not passed
enhanced_predict(provided, steps, first, second) ==
    [get_prediction_with_analysis(provided, DefaultSteps, first, second) EXCEPT
        !.endpoint = "/api/predict", !.requested_steps = steps]

\* main.py lines 434-449: GET /api/predict/{symbol}
predict_stock_price(provided, steps, first, second) ==
    [get_prediction_with_analysis(provided, steps, first, second) EXCEPT
        !.endpoint = "/api/predict/{symbol}", !.requested_steps = steps]

----------------------------------------------------------------------------
(* Order selector: model_trainer.py, find_best_arima_order and             *)
(* find_best_sarima_order                                                  *)

\* float('inf')
Inf == 1000000
SeasonalPeriods == 12

MaxFits == 2
MaxRuns == 2

\* the candidates in the order the nested loops visit them
ArimaGrid(max_p, max_d, max_q) ==
    LET nd == max_d + 1
        nq == max_q + 1
    IN  [k \in 1..((max_p + 1) * nd * nq) |->
            << (k - 1) \div (nd * nq), ((k - 1) \div nq) % nd, (k - 1) % nq >>]

\* the seasonal loops run over range(2) each, inside the loops over p, d, q
SarimaGrid(max_p, max_d, max_q, seasonal_periods) ==
    LET outer == ArimaGrid(max_p, max_d, max_q)
    IN  [k \in 1..(Len(outer) * 8) |->
            outer[(k - 1) \div 8 + 1] \o
            << ((k - 1) \div 4) % 2, ((k - 1) \div 2) % 2, (k - 1) % 2, seasonal_periods >>]

\* What model.fit() does for the k-th candidate on the series at hand: it
\* raises, or gives a result with an AIC
Raises == [ok |-> FALSE, aic |-> 0]
Fitted(aic) == [ok |-> TRUE, aic |-> aic]
AicValues == {-5, 12}

best_aic_kept == IF selector.runs = <<>> THEN Inf ELSE -Inf

\* lines 43, 62: best_aic starts from infinity at every call
best_aic_start == Inf

ImprovesOrTies(aic, best_aic) == aic <= best_aic

\* lines 51, 80: fitted_model.aic < best_aic
Improves(aic, best_aic) == aic < best_aic

\* lines 45-55, 64-84: the loops, from candidate k on
RECURSIVE grid_search(_, _, _, _, _)
grid_search(grid, fits, k, best_aic, best_order) ==
    IF k > Len(grid) THEN best_order
    ELSE IF fits[k].ok /\ Improves(fits[k].aic, best_aic)
         THEN grid_search(grid, fits, k + 1, fits[k].aic, grid[k])
         ELSE grid_search(grid, fits, k + 1, best_aic, best_order)

ArimaDefault == <<1, 1, 1>>
SarimaDefault(seasonal_periods) == <<1, 1, 1, 1, 1, 1, seasonal_periods>>

find_best_arima_order(fits, max_p, max_d, max_q) ==
    grid_search(ArimaGrid(max_p, max_d, max_q), fits, 1, best_aic_start, ArimaDefault)

find_best_sarima_order(fits, max_p, max_d, max_q, seasonal_periods) ==
    grid_search(SarimaGrid(max_p, max_d, max_q, seasonal_periods), fits, 1,
                best_aic_start, SarimaDefault(seasonal_periods))

\* the search bounds a caller passes
ArimaBounds ==
    { [max_p |-> 1, max_d |-> 0, max_q |-> 1], [max_p |-> 1, max_d |-> 1, max_q |-> 1] }
SarimaBounds ==
    { [max_p |-> 0, max_d |-> 0, max_q |-> 0], [max_p |-> 0, max_d |-> 1, max_q |-> 0] }

GridOf(kind, bounds) ==
    IF kind = "arima" THEN ArimaGrid(bounds.max_p, bounds.max_d, bounds.max_q)
    ELSE SarimaGrid(bounds.max_p, bounds.max_d, bounds.max_q, SeasonalPeriods)

\* the fit outcomes over n candidates of which at most MaxFits do not raise
FitTables(n) ==
    { [k \in 1..n |-> Raises] }
    \cup
    { [k \in 1..n |->
         IF \E i \in 1..MaxFits : pos[i] = k
         THEN Fitted(aic[CHOOSE i \in 1..MaxFits : pos[i] = k])
         ELSE Raises] :
       pos \in [1..MaxFits -> 1..n], aic \in [1..MaxFits -> AicValues] }

IdleSelector ==
    [kind |-> "none", bounds |-> [max_p |-> 0, max_d |-> 0, max_q |-> 0],
     fits |-> <<>>, runs |-> <<>>]

----------------------------------------------------------------------------
(* GET /api/quotes and the cache: main.py, get_quotes; utils.py,           *)
(* CacheManager. Every worker thread of a request runs fetch_single, and   *)
(* all of them use the one module-level cache_manager.                     *)

QuoteTtl == 30
MaxWorkers == 2
MaxTicks == 1

Symbols == {"AAPL", "MSFT"}
WorkerIds == 1..MaxWorkers
QuotePrice == 10000

\* a key the dict does not hold
NoEntry == [present |-> FALSE, value |-> 0, expiry |-> 0]
IdleWorker == [pc |-> "idle", sym |-> "AAPL", entry |-> NoEntry, quote |-> 0]

IdleQuotes ==
    /\ cache = [sym \in Symbols |-> NoEntry]
    /\ workers = [w \in WorkerIds |-> IdleWorker]
    /\ clock = 0

----------------------------------------------------------------------------
(* Specification of the forecast requests                                  *)

IdleScorer == [args |-> [interval_width_pct |-> 0, volatility |-> 0,
                         accuracy_metrics |-> NoMetrics],
               called |-> FALSE, score |-> 0]


IdleRisk ==
    /\ corpus = <<>>
    /\ response = NoResponse
    /\ reply = NoReply
    /\ frame = NoFrame
    /\ cleaned = NoCleaned

\* no request is being answered
NoRequest ==
    /\ prediction.status = "none"
    /\ advice.status = "none"
    /\ comparison.status = "none"
    /\ training.status = "none"
    /\ analysis.status = "none"

IdleForecast ==
    /\ series = <<>>
    /\ prediction = NoPrediction
    /\ advice = NoAdvice
    /\ comparison = NoComparison
    /\ training = NoTraining
    /\ analysis = NoAnalysis

ForecastInit ==
    /\ IdleForecast
    /\ IdleRisk
    /\ selector = IdleSelector
    /\ IdleQuotes
    /\ scorer = IdleScorer

\* full histories about as long as the window, the close rising by one unit a day
LongHistory ==
    {[i \in 1..n |-> 10000 + i] : n \in {WINDOW - 1, WINDOW, WINDOW + 1}}

\* how often consecutive closes differ
Changes(s) == Cardinality({i \in 1..(Len(s) - 1) : s[i] # s[i + 1]})

\* the provider records one more close: a missing value only at the start, and
\* at most MaxChanges moves of the price
AppendObservation ==
    /\ NoRequest
    /\ Len(series) < MaxHist
    /\ \E v \in PriceValues \cup {NaN} :
        /\ v = NaN => series = <<>>
        /\ Changes(Append(series, v)) <= MaxChanges
        /\ series' = Append(series, v)
    /\ UNCHANGED <<prediction, advice, comparison, training, analysis, riskVars, scoreVars, orderVars, quoteVars>>

\* the provider answers with the full daily history of the symbol
LoadHistory ==
    /\ NoRequest
    /\ series = <<>>
    /\ series' \in LongHistory
    /\ UNCHANGED <<prediction, advice, comparison, training, analysis, riskVars, scoreVars, orderVars, quoteVars>>

\* a forecast request for `steps` days
PredictPrice ==
    /\ NoRequest
    /\ series # <<>>
    /\ \E steps \in 1..MaxSteps, live_price \in PriceValues,
          lib \in LibOutcomes, bt \in BacktestOutcomes :
        prediction' = predict_price(series, live_price, steps, lib, bt)
    /\ UNCHANGED <<series, advice, comparison, training, analysis, riskVars, scoreVars, orderVars, quoteVars>>

\* the advisor asks for its confirmation forecast over the same closes
MakeForecast ==
    /\ NoRequest
    /\ series # <<>>
    /\ \E forecast_days \in 1..MaxSteps :
        \E trained \in TrainOutcomes(forecast_days) :
            advice' = make_forecast(series, forecast_days, trained)
    /\ UNCHANGED <<series, prediction, comparison, training, analysis, riskVars, scoreVars, orderVars, quoteVars>>

\* the answer goes back to the caller
Deliver ==
    /\ ~NoRequest
    /\ prediction' = NoPrediction
    /\ advice' = NoAdvice
    /\ comparison' = NoComparison
    /\ training' = NoTraining
    /\ analysis' = NoAnalysis
    /\ UNCHANGED <<series, riskVars, scoreVars, orderVars, quoteVars>>

\* GET /compare/{symbol}: the two sub-models side by side
CompareModels ==
    /\ NoRequest
    /\ series # <<>>
    /\ \E steps \in 1..MaxSteps, live_price \in PriceValues, lib \in LibOutcomes :
        comparison' = compare_models(series, live_price, steps, lib)
    /\ UNCHANGED <<series, prediction, advice, training, analysis, riskVars, scoreVars, orderVars, quoteVars>>

\* POST /train: the request carries its own closes
Train ==
    /\ NoRequest
    /\ \E close \in TrainCloses, model_type \in {"ARIMA", "SARIMA"},
          forecast_days \in 1..MaxSteps :
        \E trained \in TrainOutcomes(forecast_days) :
            training' = train(close, model_type, forecast_days, trained)
    /\ UNCHANGED <<series, prediction, advice, comparison, analysis, riskVars, scoreVars, orderVars, quoteVars>>

\* the horizons a client asks for
StepsAsked == (1..MaxSteps) \cup {DefaultSteps}

\* GET /api/predict?symbol=...&steps=...
EnhancedPredict ==
    /\ NoRequest
    /\ series # <<>>
    /\ \E steps \in StepsAsked, first \in Runs, second \in AnalysisRuns :
        analysis' = enhanced_predict(series, steps, first, second)
    /\ UNCHANGED <<series, prediction, advice, comparison, training, riskVars, scoreVars, orderVars, quoteVars>>

\* GET /api/predict/{symbol}?steps=...
PredictStockPrice ==
    /\ NoRequest
    /\ series # <<>>
    /\ \E steps \in StepsAsked, first \in Runs, second \in AnalysisRuns :
        analysis' = predict_stock_price(series, steps, first, second)
    /\ UNCHANGED <<series, prediction, advice, comparison, training, riskVars, scoreVars, orderVars, quoteVars>>

ForecastNext ==
    \/ AppendObservation
    \/ LoadHistory
    \/ EnhancedPredict
    \/ PredictStockPrice
    \/ PredictPrice
    \/ MakeForecast
    \/ CompareModels
    \/ Train
    \/ Deliver

SpecForecast == ForecastInit /\ [][ForecastNext]_vars

----------------------------------------------------------------------------
(* Specification of the calibration job                                    *)

RiskInit ==
    /\ IdleRisk
    /\ selector = IdleSelector
    /\ IdleQuotes
    /\ scorer = IdleScorer
    /\ IdleForecast

\* one more cleaned row of the historical corpus
LoadRow ==
    /\ Len(corpus) < MaxRows
    /\ \E row \in RowValues : corpus' = Append(corpus, row)
    /\ response' = NoResponse
    /\ reply' = NoReply
    /\ UNCHANGED <<frame, cleaned, scoreVars, forecastVars, orderVars, quoteVars>>

\* the calibration job runs over the corpus
Calibrate ==
    /\ response.status = "none"
    /\ reply.source = "none"
    /\ response' = generate_prediction_response(corpus)
    /\ UNCHANGED <<corpus, reply, frame, cleaned, scoreVars, forecastVars, orderVars, quoteVars>>

\* a client asks the endpoint; the CSV behind the corpus may be missing
RiskVsPrediction ==
    /\ response.status = "none"
    /\ reply.source = "none"
    /\ \E file_found \in BOOLEAN : reply' = risk_vs_prediction(file_found, corpus)
    /\ UNCHANGED <<corpus, response, frame, cleaned, scoreVars, forecastVars, orderVars, quoteVars>>

RiskNext == LoadRow \/ Calibrate \/ RiskVsPrediction

SpecRisk == RiskInit /\ [][RiskNext]_vars

----------------------------------------------------------------------------
(* Specification of the reconstruction of the corpus                       *)

ReconInit ==
    /\ corpus = <<>>
    /\ response = NoResponse
    /\ reply = NoReply
    /\ frame \in {[NoFrame EXCEPT !.has_predicted_return = b] : b \in BOOLEAN}
    /\ cleaned = NoCleaned
    /\ selector = IdleSelector
    /\ IdleQuotes
    /\ scorer = IdleScorer
    /\ IdleForecast

\* one more row of the CSV behind the corpus
ReadRow ==
    /\ Len(frame.rows) < MaxRaw
    /\ \E row \in RawRows(frame.has_predicted_return) :
        frame' = [frame EXCEPT !.rows = Append(@, row)]
    /\ cleaned' = NoCleaned
    /\ UNCHANGED <<corpus, response, reply, scoreVars, forecastVars, orderVars, quoteVars>>

\* the first half of generate_prediction_response runs over the frame
Reconstruct ==
    /\ cleaned.status = "none"
    /\ cleaned' = reconstruct_and_clean(frame)
    /\ UNCHANGED <<frame, corpus, response, reply, scoreVars, forecastVars, orderVars, quoteVars>>

ReconNext == ReadRow \/ Reconstruct

SpecRecon == ReconInit /\ [][ReconNext]_vars

----------------------------------------------------------------------------
(* Specification of the scorer calls                                       *)

ScoreInit ==
    /\ scorer \in [args : ScoreArgs, called : {FALSE}, score : {0}]
    /\ IdleRisk
    /\ selector = IdleSelector
    /\ IdleQuotes
    /\ IdleForecast

ScoreCall ==
    /\ ~scorer.called
    /\ scorer' = [scorer EXCEPT
                    !.called = TRUE,
                    !.score = calculate_confidence_score(
                                  scorer.args.interval_width_pct,
                                  scorer.args.volatility,
                                  scorer.args.accuracy_metrics)]
    /\ UNCHANGED <<riskVars, forecastVars, orderVars, quoteVars>>

ScoreNext == ScoreCall

SpecScore == ScoreInit /\ [][ScoreNext]_vars

----------------------------------------------------------------------------
(* Specification of the order selector runs                                *)

OrderInit ==
    /\ \E kind \in {"arima", "sarima"} :
         \E bounds \in (IF kind = "arima" THEN ArimaBounds ELSE SarimaBounds) :
            \E fits \in FitTables(Len(GridOf(kind, bounds))) :
                selector = [kind |-> kind, bounds |-> bounds, fits |-> fits, runs |-> <<>>]
    /\ IdleRisk
    /\ scorer = IdleScorer
    /\ IdleForecast
    /\ IdleQuotes

\* one more run of find_best_arima_order on the same series and bounds
FindBestArimaOrder ==
    /\ selector.kind = "arima"
    /\ Len(selector.runs) < MaxRuns
    /\ selector' = [selector EXCEPT !.runs =
            Append(@, find_best_arima_order(selector.fits, selector.bounds.max_p,
                                            selector.bounds.max_d, selector.bounds.max_q))]
    /\ UNCHANGED <<riskVars, scoreVars, forecastVars, quoteVars>>

\* one more run of find_best_sarima_order on the same series and bounds
FindBestSarimaOrder ==
    /\ selector.kind = "sarima"
    /\ Len(selector.runs) < MaxRuns
    /\ selector' = [selector EXCEPT !.runs =
            Append(@, find_best_sarima_order(selector.fits, selector.bounds.max_p,
                                             selector.bounds.max_d, selector.bounds.max_q,
                                             SeasonalPeriods))]
    /\ UNCHANGED <<riskVars, scoreVars, forecastVars, quoteVars>>

OrderNext == FindBestArimaOrder \/ FindBestSarimaOrder

SpecOrder == OrderInit /\ [][OrderNext]_vars

----------------------------------------------------------------------------
(* Specification of the quote requests                                     *)

QuoteInit ==
    /\ IdleQuotes
    /\ IdleRisk
    /\ scorer = IdleScorer
    /\ IdleForecast
    /\ selector = IdleSelector

otherVars == <<riskVars, scoreVars, forecastVars, orderVars>>

\* main.py lines 511-537: a request for a list of symbols (a symbol may be
\* listed twice) submits one fetch_single per entry to the thread pool
GetQuotes ==
    /\ \A w \in WorkerIds : workers[w].pc = "idle"
    /\ \E n \in WorkerIds : \E symbol_list \in [1..n -> Symbols] :
        workers' = [w \in WorkerIds |->
                        IF w <= n THEN [IdleWorker EXCEPT !.pc = "contains",
                                                          !.sym = symbol_list[w]]
                        ELSE IdleWorker]
    /\ UNCHANGED <<cache, clock, otherVars>>

\* utils.py line 36: if key in self.cache
CacheContains(w) ==
    /\ workers[w].pc = "contains"
    /\ workers' = [workers EXCEPT ![w].pc =
                        IF cache[workers[w].sym].present THEN "subscript" ELSE "fetch"]
    /\ UNCHANGED <<cache, clock, otherVars>>

\* utils.py line 37: entry = self.cache[key], a KeyError when the key is gone
CacheSubscript(w) ==
    /\ workers[w].pc = "subscript"
    /\ workers' = [workers EXCEPT ![w] =
                        IF cache[workers[w].sym].present
                        THEN [@ EXCEPT !.pc = "compare", !.entry = cache[workers[w].sym]]
                        ELSE [@ EXCEPT !.pc = "raised"]]
    /\ UNCHANGED <<cache, clock, otherVars>>

\* utils.py lines 38-39: if entry["expiry"] > time.time(): return entry["value"]
CacheCompare(w) ==
    /\ workers[w].pc = "compare"
    /\ workers' = [workers EXCEPT ![w] =
                        IF workers[w].entry.expiry > clock
                        THEN [@ EXCEPT !.pc = "done", !.quote = workers[w].entry.value]
                        ELSE [@ EXCEPT !.pc = "delete"]]
    /\ UNCHANGED <<cache, clock, otherVars>>

\* utils.py line 41: del self.cache[key], a KeyError when the key is gone
CacheDelete(w) ==
    /\ workers[w].pc = "delete"
    /\ IF cache[workers[w].sym].present
       THEN /\ cache' = [cache EXCEPT ![workers[w].sym] = NoEntry]
            /\ workers' = [workers EXCEPT ![w].pc = "fetch"]
       ELSE /\ workers' = [workers EXCEPT ![w].pc = "raised"]
            /\ UNCHANGED cache
    /\ UNCHANGED <<clock, otherVars>>

\* main.py lines 526-530: q = data_processor.get_quote(sym), a quote or None
FetchQuote(w) ==
    /\ workers[w].pc = "fetch"
    /\ \E q \in {0, QuotePrice} :
        workers' = [workers EXCEPT ![w] =
                        IF q # 0 THEN [@ EXCEPT !.pc = "set", !.quote = q]
                        ELSE [@ EXCEPT !.pc = "done"]]
    /\ UNCHANGED <<cache, clock, otherVars>>

\* utils.py lines 44-48: self.cache[key] = {value, expiry: time.time() + ttl}
CacheSet(w) ==
    /\ workers[w].pc = "set"
    /\ cache' = [cache EXCEPT ![workers[w].sym] =
                    [present |-> TRUE, value |-> workers[w].quote,
                     expiry |-> clock + QuoteTtl]]
    /\ workers' = [workers EXCEPT ![w].pc = "done"]
    /\ UNCHANGED <<clock, otherVars>>

\* main.py lines 536-546: as_completed has every future; a raised one is
\* logged and its symbol left out of the results
CollectQuotes ==
    /\ \E w \in WorkerIds : workers[w].pc # "idle"
    /\ \A w \in WorkerIds : workers[w].pc \in {"idle", "done", "raised"}
    /\ workers' = [w \in WorkerIds |-> IdleWorker]
    /\ UNCHANGED <<cache, clock, otherVars>>

\* time passes
Tick ==
    /\ clock < MaxTicks * QuoteTtl
    /\ clock' = clock + QuoteTtl
    /\ UNCHANGED <<cache, workers, otherVars>>

QuoteNext ==
    \/ GetQuotes
    \/ \E w \in WorkerIds :
          \/ CacheContains(w)
          \/ CacheSubscript(w)
          \/ CacheCompare(w)
          \/ CacheDelete(w)
          \/ FetchQuote(w)
          \/ CacheSet(w)
    \/ CollectQuotes
    \/ Tick

SpecQuotes == QuoteInit /\ [][QuoteNext]_vars

----------------------------------------------------------------------------
(* Claims about the risk confidence calibrator                             *)

Conf == response.risk_confidence
RawConf == response.raw_confidence
InConfRange(c) == ConfFloor <= c /\ c <= ConfCeil

\* C1: whenever generate_prediction_response returns, the risk_confidence map
\* is strictly ordered, low > medium > high, whatever the raw tier confidences.
C1_StrictOrdering ==
    response.status = "ok" => (Conf.low > Conf.medium /\ Conf.medium > Conf.high)

\* C2: every value of the risk_confidence map lies in [40, 90], before the
\* ordering enforcement (raw tier values) and after it, for every corpus.
C2_ConfidenceInRange ==
    response.status = "ok" =>
        /\ InConfRange(RawConf.low) /\ InConfRange(RawConf.medium) /\ InConfRange(RawConf.high)
        /\ InConfRange(Conf.low) /\ InConfRange(Conf.medium) /\ InConfRange(Conf.high)

\* a run where the High tier is so accurate that Medium is pushed into the
\* ceiling, with an empty tier and a tier whose only actual price is zero
C2_Witness ==
    /\ response.status = "ok"
    /\ RawConf.high > ConfCeil - ConfStep
    /\ RawConf.medium <= RawConf.high
    /\ Conf.medium = ConfCeil
    /\ \E i \in 1..Len(corpus) : corpus[i].actual_price = 0

ValidRows == {i \in 1..Len(corpus) : corpus[i].risk <= RISK_SUPPRESS_THRESHOLD}
MatchingRows ==
    {i \in ValidRows : IsClose(corpus[i].predicted_price_recon, corpus[i].actual_price)}

\* C10: generate_prediction_response raises exactly when there is a valid
\* (non-suppressed) pair and strictly more than half of the valid pairs have
\* prediction equal to actual within tolerance.
C10_LeakageGuardExact ==
    response.status # "none" =>
        (response.status = "raised" <=>
            (ValidRows # {} /\ 2 * Cardinality(MatchingRows) > Cardinality(ValidRows)))

\* a run that raised although one valid pair did not match, next to a
\* suppressed row that the guard leaves out of the count
C10_Witness ==
    /\ response.status = "raised"
    /\ Cardinality(ValidRows) = 3
    /\ Cardinality(MatchingRows) = 2

\* C19: the enforcement step is exactly: if medium <= high then
\* medium := min(90, max(medium, high + 5)); then, with the possibly raised
\* medium, if low <= medium then low := min(90, max(low, medium + 5)). High is
\* never changed, no value is lowered, and nothing changes when
\* low > medium > high already holds.
C19_EnforcementExact ==
    response.status = "ok" =>
        /\ Conf.high = RawConf.high
        /\ Conf.medium =
              (IF RawConf.medium <= RawConf.high
               THEN Min2(ConfCeil, Max2(RawConf.medium, RawConf.high + ConfStep))
               ELSE RawConf.medium)
        /\ Conf.low =
              (IF RawConf.low <= Conf.medium
               THEN Min2(ConfCeil, Max2(RawConf.low, Conf.medium + ConfStep))
               ELSE RawConf.low)
        /\ Conf.medium >= RawConf.medium
        /\ Conf.low >= RawConf.low
        /\ (RawConf.low > RawConf.medium /\ RawConf.medium > RawConf.high) => Conf = RawConf

\* Medium was raised to High + 5 and Low, already above that, was left alone
C19_Witness ==
    /\ response.status = "ok"
    /\ RawConf.medium <= RawConf.high
    /\ Conf.medium = RawConf.high + ConfStep
    /\ RawConf.low > Conf.medium
    /\ Conf.low = RawConf.low

\* the tier of the thresholds that the per-tier confidences use
ThresholdTier(risk) ==
    IF risk < LowRiskBound THEN "Low Risk"
    ELSE IF risk < HighRiskBound THEN "Medium Risk"
    ELSE "High Risk"

\* C20: every row of the output carries a risk tier that is one of Low,
\* Medium, High, namely the one of the thresholds risk < 0.3 -> Low,
\* 0.3 <= risk < 0.7 -> Medium, risk >= 0.7 -> High, for every risk in [0, 1],
\* exactly 0, 0.3 and 0.7 included.
C20_TierMatchesThresholds ==
    response.status = "ok" =>
        \A i \in 1..Len(response.risk_zones) :
            /\ response.risk_zones[i] \in {"Low Risk", "Medium Risk", "High Risk"}
            /\ response.risk_zones[i] = ThresholdTier(response.risk_levels[i])

\* what a row of the corpus looks like in the output lists
OutputRow(row) ==
    <<row.risk, row.actual_price,
      IF row.risk > RISK_SUPPRESS_THRESHOLD THEN None ELSE row.predicted_price_recon>>
ResponseRow(i) ==
    <<response.risk_levels[i], response.actual_prices[i], response.predicted_prices[i]>>
ValidCorpus == SelectSeq(corpus, LAMBDA row : row.risk <= RISK_SUPPRESS_THRESHOLD)

\* C21: in the output, prediction_suppressed[i] holds iff risk_levels[i] > 0.85
\* iff predicted_prices[i] is null; the per-row lists stay aligned after the
\* sort by risk; and no suppressed row contributes to a tier confidence, to the
\* leakage ratio or to the error statistics.
C21_SuppressionConsistent ==
    /\ response.status = "ok" =>
        /\ Len(response.risk_levels) = Len(corpus)
        /\ Len(response.predicted_prices) = Len(corpus)
        /\ Len(response.actual_prices) = Len(corpus)
        /\ Len(response.prediction_suppressed) = Len(corpus)
        /\ \A i \in 1..Len(corpus) :
              /\ response.prediction_suppressed[i] <=>
                    response.risk_levels[i] > RISK_SUPPRESS_THRESHOLD
              /\ response.prediction_suppressed[i] <=> response.predicted_prices[i] = None
              /\ i > 1 => response.risk_levels[i - 1] <= response.risk_levels[i]
              /\ Cardinality({j \in 1..Len(corpus) : OutputRow(corpus[j]) = ResponseRow(i)})
                    = Cardinality({j \in 1..Len(corpus) : ResponseRow(j) = ResponseRow(i)})
        /\ LET of_valid == generate_prediction_response(ValidCorpus)
           IN  /\ response.raw_confidence = of_valid.raw_confidence
               /\ response.risk_confidence = of_valid.risk_confidence
               /\ response.statistics = of_valid.statistics
    /\ response.status = "raised" => LeakageDetected(ValidCorpus)
    /\ response.status = "ok" => ~LeakageDetected(ValidCorpus)

\* a suppressed row whose prediction would match its actual, sorted behind two
\* valid rows that were loaded after it
C21_Witness ==
    /\ response.status = "ok"
    /\ Len(corpus) = 3
    /\ corpus[1].risk > RISK_SUPPRESS_THRESHOLD
    /\ IsClose(corpus[1].predicted_price_recon, corpus[1].actual_price)
    /\ corpus[2].risk > corpus[3].risk
    /\ response.prediction_suppressed = <<FALSE, FALSE, TRUE>>
    /\ response.predicted_prices[3] = None
    /\ response.predicted_prices[1] = corpus[3].predicted_price_recon

\* the rows of the frame that have a previous actual price other than zero
RowsWithPrev(df) ==
    {i \in 2..Len(df.rows) : df.rows[i - 1].actual_price # 0}

\* C26: the compared prediction is prev_actual * (1 + predicted_return); when
\* the corpus has no predicted_return column, predicted_return is derived as
\* (predicted_price - prev_actual) / prev_actual, so that for every row with a
\* non-zero previous actual price the reconstructed price equals the raw
\* predicted price (up to one unit of the fixed point, the rounding of the
\* two divisions).
C26_ReconstructionRoundTrip ==
    cleaned.status = "ok" =>
        /\ \A k \in 1..Len(cleaned.rows) :
              LET row == cleaned.rows[k]
              IN  /\ row.prev_price # 0
                  /\ Abs(ReturnOne * row.predicted_price_recon
                          - row.prev_price * (ReturnOne + row.predicted_return))
                        < ReturnOne
                  /\ ~frame.has_predicted_return =>
                        Abs(row.predicted_price_recon - row.predicted_price) <= 1
        /\ ~frame.has_predicted_return =>
              Len(cleaned.rows) = Cardinality(RowsWithPrev(frame))

\* no predicted_return column; one row is dropped for its zero previous price,
\* another is reconstructed from a prediction below the previous price
C26_Witness ==
    /\ cleaned.status = "ok"
    /\ ~frame.has_predicted_return
    /\ Len(frame.rows) = 3
    /\ Len(cleaned.rows) = 1
    /\ cleaned.rows[1].prev_price = 150
    /\ cleaned.rows[1].predicted_price = 100
    /\ cleaned.rows[1].predicted_return < 0

----------------------------------------------------------------------------
(* Claims about the confidence scorer                                      *)

\* C3: _calculate_confidence_score returns a value in [10, 95] for every
\* finite interval width, volatility and optional MAPE.
C3_ScoreInRange ==
    scorer.called => (ScoreFloor <= scorer.score /\ scorer.score <= ScoreCeil)

\* zero width, zero volatility and a MAPE of 100: the floor is what is returned
C3_Witness ==
    /\ scorer.called
    /\ scorer.args.interval_width_pct = 0
    /\ scorer.args.volatility = 0
    /\ ~scorer.args.accuracy_metrics.none
    /\ "mape" \in DOMAIN scorer.args.accuracy_metrics.dict
    /\ scorer.args.accuracy_metrics.dict.mape = 1000
    /\ scorer.score = ScoreFloor

MapePenalty(accuracy_metrics) ==
    IF ~accuracy_metrics.none /\ "mape" \in DOMAIN accuracy_metrics.dict
    THEN 2 * accuracy_metrics.dict.mape
    ELSE 0

\* C4: the score equals clamp(100 - 2.0 * width - 0.5 * volatility - MAPE, 10, 95),
\* the MAPE term being subtracted exactly when the metrics are present and hold a MAPE.
C4_ScoreFormula ==
    scorer.called =>
        scorer.score =
            Max2(ScoreFloor, Min2(ScoreCeil,
                ScoreBase - 4 * scorer.args.interval_width_pct
                          - scorer.args.volatility
                          - MapePenalty(scorer.args.accuracy_metrics)))

\* an unclamped score to which a present MAPE contributed
C4_Witness ==
    /\ scorer.called
    /\ ~scorer.args.accuracy_metrics.none
    /\ "mape" \in DOMAIN scorer.args.accuracy_metrics.dict
    /\ scorer.args.accuracy_metrics.dict.mape = 50
    /\ scorer.args.volatility = 7
    /\ scorer.score > ScoreFloor
    /\ scorer.score < ScoreCeil

\* the metrics hold a MAPE
HasMape(accuracy_metrics) ==
    ~accuracy_metrics.none /\ "mape" \in DOMAIN accuracy_metrics.dict

\* `more` differs from `less` in one penalty input only, which is larger in
\* `more`: a larger non-negative width, a larger volatility, a larger MAPE, or
\* a MAPE >= 0 where `less` has no accuracy metrics
OnePenaltyLarger(more, less) ==
    \/ /\ more.volatility = less.volatility
       /\ more.accuracy_metrics = less.accuracy_metrics
       /\ less.interval_width_pct >= 0
       /\ more.interval_width_pct > less.interval_width_pct
    \/ /\ more.interval_width_pct = less.interval_width_pct
       /\ more.accuracy_metrics = less.accuracy_metrics
       /\ more.volatility > less.volatility
    \/ /\ more.interval_width_pct = less.interval_width_pct
       /\ more.volatility = less.volatility
       /\ HasMape(more.accuracy_metrics) /\ HasMape(less.accuracy_metrics)
       /\ more.accuracy_metrics.dict.mape > less.accuracy_metrics.dict.mape
    \/ /\ more.interval_width_pct = less.interval_width_pct
       /\ more.volatility = less.volatility
       /\ less.accuracy_metrics.none
       /\ HasMape(more.accuracy_metrics)
       /\ more.accuracy_metrics.dict.mape >= 0

ScoreOf(args) ==
    calculate_confidence_score(args.interval_width_pct, args.volatility,
                               args.accuracy_metrics)

\* C30: _calculate_confidence_score is monotonically non-increasing in each
\* penalty input: with the other inputs fixed, a larger non-negative interval
\* width, a larger volatility or a larger MAPE never yields a higher score, and
\* a MAPE >= 0 never yields a higher score than no accuracy metrics.
C30_ScoreMonotone ==
    scorer.called =>
        \A other \in ScoreArgs :
            /\ OnePenaltyLarger(other, scorer.args) => ScoreOf(other) <= scorer.score
            /\ OnePenaltyLarger(scorer.args, other) => scorer.score <= ScoreOf(other)

\* an unclamped score that a larger width, a larger volatility and a larger
\* MAPE each lower strictly, and that is below the score without metrics
C30_Witness ==
    /\ scorer.called
    /\ scorer.score > ScoreFloor
    /\ scorer.score < ScoreCeil
    /\ HasMape(scorer.args.accuracy_metrics)
    /\ scorer.args.accuracy_metrics.dict.mape > 0
    /\ scorer.score < ScoreOf([scorer.args EXCEPT !.accuracy_metrics = NoMetrics])
    /\ \E other \in ScoreArgs :
          /\ other.interval_width_pct > scorer.args.interval_width_pct
          /\ OnePenaltyLarger(other, scorer.args)
          /\ ScoreOf(other) < scorer.score
    /\ \E other \in ScoreArgs :
          /\ other.volatility > scorer.args.volatility
          /\ OnePenaltyLarger(other, scorer.args)
          /\ ScoreOf(other) < scorer.score

----------------------------------------------------------------------------
(* Claims about predict_price and Advisor._make_forecast                   *)

\* the fallback's point i of a series: last value plus the damped trend, with a
\* band of 1.96 standard deviations of the series
IsFallbackPoint(point, i, historical) ==
    LET last_price == historical[Len(historical)]
        tail == DropNa(TailN(historical, MaTail))
        ma == IF tail = <<>> THEN NaN ELSE SumSeq(tail) \div Len(tail)
        std == Std(historical)
        price == IF last_price = NaN \/ ma = NaN THEN NaN
                 ELSE last_price + ((last_price - ma) \div TrendDamping) * i
        band == IF std = NaN THEN NaN ELSE (std * ZValue) \div 100
    IN  /\ point.price = price
        /\ point.lower_bound = (IF price = NaN \/ band = NaN THEN NaN ELSE price - band)
        /\ point.upper_bound = (IF price = NaN \/ band = NaN THEN NaN ELSE price + band)
        /\ point.std_dev = std

\* C5: when either sub-model fit (or its forecast extraction) fails, every
\* forecast point, bound and std_dev of the result is the fallback forecaster's.
C5_FailureMeansFallback ==
    (prediction.status = "ok" /\ prediction.lib_failure # "none") =>
        /\ Len(prediction.forecast) = prediction.steps
        /\ \A i \in 1..Len(prediction.forecast) :
              IsFallbackPoint(prediction.forecast[i], i, prediction.historical)

\* only the seasonal fit failed, on a series that moved, for a two step horizon
C5_Witness ==
    /\ prediction.status = "ok"
    /\ prediction.lib_failure = "sarima_fit"
    /\ prediction.steps = 2
    /\ Len(prediction.forecast) = 2
    /\ prediction.forecast[2].price # prediction.forecast[1].price
    /\ prediction.forecast[1].std_dev # NaN
    /\ prediction.forecast[1].std_dev > 0

\* C6: for every input series with fewer than 10 observations the forecast is
\* the fallback forecaster's and has exactly `horizon` points, in predict_price
\* and in Advisor._make_forecast.
C6_ShortSeriesUsesFallback ==
    /\ (prediction.status = "ok" /\ Len(prediction.provided) < MinFitLength) =>
          (prediction.path = "fallback" /\ Len(prediction.forecast) = prediction.steps)
    /\ (advice.status = "ok" /\ Len(advice.close) < MinFitLength) =>
          (advice.source = "naive" /\ Len(advice.forecast) = advice.forecast_days)

\* C7: for every valid series of length >= 10 and every steps >= 1, predict_price
\* returns exactly `steps` forecast points, each with a date and a finite price,
\* on the ensemble path and on the fallback path.
C7_HorizonPoints ==
    (/\ prediction.status # "none"
     /\ Len(prediction.historical) >= MinFitLength
     /\ ~HasNaN(prediction.historical)) =>
        /\ prediction.status = "ok"
        /\ Len(prediction.forecast) = prediction.steps
        /\ \A i \in 1..Len(prediction.forecast) :
              /\ prediction.forecast[i].date = i
              /\ prediction.forecast[i].price # NaN

\* ten valid closes, the fit failed, two steps asked and given
C7_Witness ==
    /\ prediction.status = "ok"
    /\ Len(prediction.provided) >= MinFitLength
    /\ ~HasNaN(prediction.historical)
    /\ prediction.path = "fallback"
    /\ prediction.steps = 2
    /\ Len(prediction.forecast) = 2

\* C8: whenever the forecast comes from the fallback path, the returned
\* accuracy_metrics is null, whatever the backtest that runs afterwards does.
C8_FallbackHasNoMetrics ==
    (prediction.status = "ok" /\ prediction.path = "fallback") =>
        prediction.accuracy_metrics.none

\* C9: the fallback forecaster never raises and always returns exactly
\* `horizon` points, for every series it is handed, in the fallback branch of
\* predict_price and in the naive fallback of Advisor._make_forecast.
C9_FallbackAlwaysAnswers ==
    /\ (prediction.status # "none" /\ prediction.provided # <<>>
            /\ prediction.lib_failure # "none") =>
          (prediction.status = "ok" /\ Len(prediction.forecast) = prediction.steps)
    /\ (advice.status # "none" /\ advice.source = "naive") =>
          (advice.status = "ok" /\ Len(advice.forecast) = advice.forecast_days)

\* C14: the confidence score predict_price returns is never NaN, and when the
\* interval width or the volatility it is computed from is NaN the score is
\* the 'unknown' sentinel, not a number in [10, 95].
C14_UnknownScoreOnNaN ==
    prediction.status = "ok" =>
        /\ prediction.confidence_score # NaN
        /\ (prediction.interval_width_pct = NaN \/ prediction.volatility = NaN) =>
              ~(ScoreFloor <= prediction.confidence_score
                    /\ prediction.confidence_score <= ScoreCeil)

\* C15: a sub-model fitting failure never reaches the caller as a failed
\* request: predict_price, compare_models and POST /train each answer with a
\* fallback forecast instead of raising or returning an error.
C15_FitFailureNeverFails ==
    /\ (prediction.status # "none" /\ prediction.lib_failure # "none") =>
          (prediction.status = "ok" /\ prediction.path = "fallback")
    /\ (comparison.status # "none" /\ comparison.lib_failure # "none") =>
          comparison.status = "ok"
    /\ (training.status # "none" /\ training.fit_failed) =>
          (training.status = "ok" /\ training.forecast # <<>>)

TestPortion(historical) ==
    SubSeq(historical, (Len(historical) * 8) \div 10 + 1, Len(historical))

\* C16: a failure anywhere in the backtest (a re-fit, a forecast, a metric)
\* never fails the request of predict_price: the forecast is returned with
\* accuracy_metrics null; accuracy_metrics is non-null only if the test portion
\* is non-empty and the re-fits and the three metrics succeeded.
C16_BacktestFailureIsSilent ==
    (prediction.status # "none" /\ prediction.provided # <<>>) =>
        /\ prediction.status = "ok"
        /\ Len(prediction.forecast) = prediction.steps
        /\ prediction.bt_failure # "none" => prediction.accuracy_metrics.none
        /\ ~prediction.accuracy_metrics.none =>
              /\ TestPortion(prediction.historical) # <<>>
              /\ prediction.bt_failure = "none"
              /\ DOMAIN prediction.accuracy_metrics.dict = {"rmse", "mae", "mape", "test_size"}
              /\ \A key \in {"rmse", "mae", "mape"} :
                    prediction.accuracy_metrics.dict[key] # NaN
              /\ prediction.accuracy_metrics.dict.test_size =
                    Len(TestPortion(prediction.historical))

\* the seasonal re-fit failed after an ensemble forecast over two steps
C16_Witness ==
    /\ prediction.status = "ok"
    /\ prediction.path = "ensemble"
    /\ prediction.bt_failure = "sarima_refit"
    /\ prediction.accuracy_metrics.none
    /\ Len(prediction.forecast) = 2
    /\ Len(prediction.historical) >= MinFitLength

\* C18: the engine never mutates the series it is given: when predict_price
\* has answered, the series object handed over by the time-series provider
\* still holds what the provider put into it, the live-price append and the
\* truncation having been applied to a derived copy.
C18_InputNotMutated ==
    prediction.status = "ok" => prediction.handed_over = prediction.provided

\* x is the arithmetic mean of a and b, up to the rounding of the fixed point
IsMeanOf(x, a, b) == x # NaN /\ Abs(2 * x - (a + b)) <= 1

\* C22: on the ensemble path, at every horizon step the point forecast is the
\* arithmetic mean of the two sub-model point forecasts, the lower bound the
\* mean of their lower bounds and the upper bound the mean of their upper
\* bounds (not the union of the intervals).
C22_EnsembleIsMean ==
    (prediction.status = "ok" /\ prediction.path = "ensemble") =>
        /\ Len(prediction.sub_models.arima) = prediction.steps
        /\ Len(prediction.sub_models.sarima) = prediction.steps
        /\ \A i \in 1..prediction.steps :
              LET arima == prediction.sub_models.arima[i]
                  sarima == prediction.sub_models.sarima[i]
                  point == prediction.forecast[i]
              IN  /\ IsMeanOf(point.price, arima.mean, sarima.mean)
                  /\ IsMeanOf(point.lower_bound, arima.lower, sarima.lower)
                  /\ IsMeanOf(point.upper_bound, arima.upper, sarima.upper)

\* two steps, the sub-models disagreeing on the point and on the interval
C22_Witness ==
    /\ prediction.status = "ok"
    /\ prediction.path = "ensemble"
    /\ prediction.steps = 2
    /\ prediction.sub_models.arima[2].mean # prediction.sub_models.sarima[2].mean
    /\ prediction.sub_models.arima[2].lower > prediction.sub_models.sarima[2].lower
    /\ prediction.forecast[2].lower_bound > prediction.sub_models.sarima[2].lower

\* C23: the backtest of predict_price splits the n points of the fitted series
\* into train = the first floor(0.8 n) points and test = the rest (disjoint,
\* contiguous, in order, together the whole series); both sub-models are
\* re-fitted on train only and the backtest forecast has len(test) steps.
C23_BacktestSplit ==
    prediction.status = "ok" =>
        LET historical == prediction.historical
            n == Len(historical)
            calls == prediction.backtest_calls
        IN  /\ 10 * Len(calls.train) <= 8 * n
            /\ 10 * (Len(calls.train) + 1) > 8 * n
            /\ calls.train \o calls.test = historical
            /\ \A fit \in {calls.arima_train, calls.sarima_train} :
                  fit.called => fit.endog = calls.train
            /\ calls.forecast_made =>
                  /\ calls.arima_train.called /\ calls.sarima_train.called
                  /\ calls.test_steps = Len(calls.test)
                  /\ Len(calls.ensemble_test_fc) = Len(calls.test)
            /\ ~prediction.accuracy_metrics.none =>
                  /\ calls.forecast_made
                  /\ prediction.accuracy_metrics.dict.test_size = n - Len(calls.train)

\* eleven points: eight to train on, three to test on, and the metrics computed
C23_Witness ==
    /\ prediction.status = "ok"
    /\ Len(prediction.historical) = 11
    /\ Len(prediction.backtest_calls.train) = 8
    /\ prediction.backtest_calls.forecast_made
    /\ Len(prediction.backtest_calls.ensemble_test_fc) = 3
    /\ ~prediction.accuracy_metrics.none

\* the last WINDOW observations of the provider's series followed by the live one
LiveWindow(provided, live_price) ==
    LET all == provided \o <<live_price>>
        n == Len(all)
    IN  IF n <= WINDOW THEN all ELSE [i \in 1..WINDOW |-> all[n - WINDOW + i]]

FitsUseLiveWindow(request) ==
    \A fit \in {request.fits.arima, request.fits.sarima} :
        fit.called =>
            /\ Len(fit.endog) <= WINDOW
            /\ fit.endog[Len(fit.endog)] = request.live_price
            /\ fit.endog = LiveWindow(request.provided, request.live_price)

MeanOfStepWidths(forecast, scale) ==
    NpMean([i \in 1..Len(forecast) |->
              FDiv(FMul(FSub(forecast[i].upper_bound, forecast[i].lower_bound), scale),
                   forecast[i].price)])

\* C25: the interval-width percentage passed to the confidence scorer is the
\* mean over the horizon steps of (upper - lower) / point forecast at that
\* step, times 100 (here: up to ten units of the sixth decimal of the ratio,
\* which covers the rounding of the fixed point).
C25_WidthIsMeanOfStepRatios ==
    (prediction.status = "ok" /\ ~HasNaN([i \in 1..prediction.steps |->
                                              prediction.forecast[i].price])) =>
        /\ prediction.interval_width_pct = prediction.interval_width_fine \div ScorerScale
        /\ Abs(prediction.interval_width_fine
                - MeanOfStepWidths(prediction.forecast, FineScale)) <= 10

\* C28: whenever the result of predict_price reports model_info.ensemble_method
\* = 'simple_average', its forecast points are the average of two successfully
\* fitted sub-models; a forecast of the fallback path is told apart from an
\* ensemble forecast by the returned structure.
C28_SimpleAverageMeansEnsemble ==
    (prediction.status = "ok" /\ prediction.ensemble_method = "simple_average") =>
        /\ prediction.lib_failure = "none"
        /\ prediction.path = "ensemble"
        /\ Len(prediction.sub_models.arima) = prediction.steps
        /\ Len(prediction.sub_models.sarima) = prediction.steps

\* C27: a request to /api/predict for N forecast steps (1 <= N <= 30) returns
\* a prediction whose forecast list has exactly N points: the requested step
\* count reaches predict_price unchanged.
C27_RequestedStepsReachForecast ==
    (analysis.status = "ok" /\ analysis.endpoint = "/api/predict") =>
        /\ analysis.prediction.steps = analysis.requested_steps
        /\ Len(analysis.prediction.forecast) = analysis.requested_steps

\* C29: in the result of get_prediction_with_analysis the investment_analysis
\* block is derived from the same forecast run as the prediction block: same
\* live price, same fitted series, same horizon, for every requested steps
\* value and even if the live price changes during the call.
C29_AnalysisOfSameRun ==
    analysis.status = "ok" =>
        /\ analysis.investment_analysis.live_price = analysis.prediction.live_price
        /\ analysis.investment_analysis.historical_data = analysis.prediction.historical
        /\ analysis.investment_analysis.steps = analysis.prediction.steps
        /\ analysis.investment_analysis.predicted_t10 = analysis.prediction.predicted_t10

----------------------------------------------------------------------------
(* Claims about the order selector                                         *)

SelectorGrid == GridOf(selector.kind, selector.bounds)
FittedCandidates == {k \in 1..Len(selector.fits) : selector.fits[k].ok}
\* the first candidate, in iteration order, among those of minimal AIC
FirstBest ==
    CHOOSE k \in FittedCandidates :
        /\ \A j \in FittedCandidates : selector.fits[k].aic <= selector.fits[j].aic
        /\ \A j \in FittedCandidates :
              selector.fits[j].aic = selector.fits[k].aic => k <= j
SelectorDefault ==
    IF selector.kind = "arima" THEN <<1, 1, 1>>
    ELSE <<1, 1, 1, 1, 1, 1, SeasonalPeriods>>

\* C13: the order returned is the first candidate of minimal AIC among the
\* candidates whose fit succeeded, candidates whose fit raises being skipped;
\* when no candidate fits it is the default (1,1,1), respectively
\* ((1,1,1),(1,1,1,seasonal_periods)).
C13_BestOrder ==
    \A i \in 1..Len(selector.runs) :
        selector.runs[i] =
            (IF FittedCandidates = {} THEN SelectorDefault ELSE SelectorGrid[FirstBest])

\* a tie between two fitted candidates, after a candidate that raised
C13_Witness ==
    /\ selector.runs # <<>>
    /\ ~selector.fits[1].ok
    /\ \E k, j \in FittedCandidates :
          /\ k < j
          /\ selector.fits[k].aic = selector.fits[j].aic
          /\ selector.runs[1] = SelectorGrid[k]

----------------------------------------------------------------------------
(* Claims about the quote workers                                          *)

\* C17: the worker threads of get_quotes share no mutable state: in every
\* interleaving of fetch_single calls, two workers on the same symbol
\* included, no worker raises in the cache's get / set / expiry-delete.
C17_WorkersNeverRaise ==
    \A w \in WorkerIds : workers[w].pc # "raised"

====
